---- MODULE Spec2Model ----
(***************************************************************************)
(* Model of extract_text.py: the image Locator, the single-image           *)
(* extractor, the batch orchestrator, the result sink and main().          *)
(* Strings are sequences of one-character strings so that suffixes, case   *)
(* conversion, stripping and ordering are computed as Python computes them.*)
(* pathlib is modelled with its POSIX behaviour: glob patterns match file  *)
(* names case-sensitively and paths compare by their tuples of parts.      *)
(***************************************************************************)
EXTENDS Integers, Sequences, FiniteSets, TLC

VARIABLES fs, args, pc, loc, image_files, idx, ex, results, handles,
          out_files, exit_code, summary, raised

vars == <<fs, args, pc, loc, image_files, idx, ex, results, handles,
          out_files, exit_code, summary, raised>>

\* Largest number of files the modelled directory tree holds.
MaxFiles == 2

(***************************************************************************)
(* Characters and str operations                                           *)
(***************************************************************************)
UpperCase == <<"A","B","C","D","E","F","G","H","I","J","K","L","M",
               "N","O","P","Q","R","S","T","U","V","W","X","Y","Z">>

LowerCase == <<"a","b","c","d","e","f","g","h","i","j","k","l","m",
               "n","o","p","q","r","s","t","u","v","w","x","y","z">>

IndexIn(c, tbl) == CHOOSE i \in 1..Len(tbl) : tbl[i] = c

IsUpper(c) == \E i \in 1..Len(UpperCase) : UpperCase[i] = c

IsLower(c) == \E i \in 1..Len(LowerCase) : LowerCase[i] = c

\* Code point of a character (the order Python compares str by).
Code(c) ==
    IF IsUpper(c) THEN 64 + IndexIn(c, UpperCase)
    ELSE IF IsLower(c) THEN 96 + IndexIn(c, LowerCase)
    ELSE CASE c = "\n" -> 10
           [] c = " "  -> 32
           [] c = "-"  -> 45
           [] c = "."  -> 46
           [] c = "/"  -> 47

\* str.lower()
lower(s) == [i \in 1..Len(s) |->
               IF IsUpper(s[i]) THEN LowerCase[IndexIn(s[i], UpperCase)] ELSE s[i]]

\* str.upper()
upper(s) == [i \in 1..Len(s) |->
               IF IsLower(s[i]) THEN UpperCase[IndexIn(s[i], LowerCase)] ELSE s[i]]

\* s < t for two str: first differing code point, a proper prefix is smaller.
RECURSIVE StrLess(_, _)
StrLess(s, t) ==
    IF t = <<>> THEN FALSE
    ELSE IF s = <<>> THEN TRUE
    ELSE IF Head(s) = Head(t) THEN StrLess(Tail(s), Tail(t))
    ELSE Code(Head(s)) < Code(Head(t))

EndsWith(s, suf) ==
    /\ Len(suf) <= Len(s)
    /\ SubSeq(s, Len(s) - Len(suf) + 1, Len(s)) = suf

IsSpace(c) == c \in {" ", "\n"}

\* str.strip()
RECURSIVE lstrip(_)
lstrip(s) == IF s # <<>> /\ IsSpace(Head(s)) THEN lstrip(Tail(s)) ELSE s

RECURSIVE rstrip(_)
rstrip(s) == IF s # <<>> /\ IsSpace(s[Len(s)]) THEN rstrip(SubSeq(s, 1, Len(s) - 1)) ELSE s

strip(s) == rstrip(lstrip(s))

(***************************************************************************)
(* pathlib.Path                                                            *)
(***************************************************************************)
\* Path.parts: the path string split at "/".
RECURSIVE SplitAcc(_, _, _)
SplitAcc(s, cur, acc) ==
    IF s = <<>> THEN Append(acc, cur)
    ELSE IF Head(s) = "/" THEN SplitAcc(Tail(s), <<>>, Append(acc, cur))
    ELSE SplitAcc(Tail(s), Append(cur, Head(s)), acc)

parts(p) == SplitAcc(p, <<>>, <<>>)

\* Path.name
name(p) == parts(p)[Len(parts(p))]

\* str.rfind("."), 1-based, 0 when absent.
rfind_dot(s) ==
    IF \E i \in 1..Len(s) : s[i] = "."
    THEN CHOOSE i \in 1..Len(s) : s[i] = "." /\ \A j \in (i+1)..Len(s) : s[j] # "."
    ELSE 0

\* Path.suffix: the last dot and what follows, unless the dot is first or last.
suffix(p) ==
    LET n == name(p)
        i == rfind_dot(n)
    IN  IF 1 < i /\ i < Len(n) THEN SubSeq(n, i, Len(n)) ELSE <<>>

\* Path.stem
stem(p) ==
    LET n == name(p)
        i == rfind_dot(n)
    IN  IF 1 < i /\ i < Len(n) THEN SubSeq(n, 1, i - 1) ELSE n

\* Path.__lt__: the tuples of parts are compared element by element.
RECURSIVE PartsLess(_, _)
PartsLess(a, b) ==
    IF b = <<>> THEN FALSE
    ELSE IF a = <<>> THEN TRUE
    ELSE IF Head(a) = Head(b) THEN PartsLess(Tail(a), Tail(b))
    ELSE StrLess(Head(a), Head(b))

PathLessStr(p, q) == StrLess(p, q)

PathLess(p, q) == PartsLess(parts(p), parts(q))

(***************************************************************************)
(* The file system the program runs on                                     *)
(***************************************************************************)
Dot == <<".">>

F_a_dash_b_png == <<"a","-","b",".","p","n","g">>

F_a_slash_b_png == <<"a","/","b",".","p","n","g">>

F_a_jpg == <<"a",".","j","p","g">>

F_a_Jpg == <<"a",".","J","p","g">>

F_a_PNG == <<"a",".","P","N","G">>

F_b_png == <<"b",".","p","n","g">>

F_c_txt == <<"c",".","t","x","t">>

D_a == <<"a">>

D_zz == <<"z","z">>

Universe == {F_a_dash_b_png, F_a_slash_b_png, F_a_jpg, F_a_Jpg, F_a_PNG,
             F_b_png, F_c_txt}

IsPrefix(a, b) == Len(a) < Len(b) /\ SubSeq(b, 1, Len(a)) = a

\* The files below directory d, as the paths glob yields them.
Under(files, d) ==
    IF d = Dot THEN files
    ELSE {f \in files : IsPrefix(parts(d), parts(f))}

Depth(d) == IF d = Dot THEN 0 ELSE Len(parts(d))

is_file(files, p) == p \in files

is_dir(files, p) == p = Dot \/ Under(files, p) # {}

exists(files, p) == is_file(files, p) \/ is_dir(files, p)

(***************************************************************************)
(* ImageTextExtractor.__init__                                             *)
(***************************************************************************)
supported_formats ==
    { <<".","j","p","g">>, <<".","j","p","e","g">>, <<".","p","n","g">>,
      <<".","t","i","f","f">>, <<".","b","m","p">>, <<".","g","i","f">> }

DefaultConfig == "--oem 3 --psm 6"

(***************************************************************************)
(* ImageTextExtractor.find_images_in_directory                             *)
(***************************************************************************)
glob_cwd(files, directory, recursive, suf) ==
    {f \in files : EndsWith(name(f), suf)}

\* directory.glob(pattern + suf): case-sensitive match of the file name.
glob(files, directory, recursive, suf) ==
    {f \in Under(files, directory) :
        /\ EndsWith(name(f), suf)
        /\ (recursive \/ Len(parts(f)) = Depth(directory) + 1)}

\* All orders in which a directory scan may yield a set of entries.
Orders(S) ==
    {s \in [1..Cardinality(S) -> S] : \A i, j \in 1..Cardinality(S) : s[i] = s[j] => i = j}

\* Insert p into the sorted list after every element not greater than it.
RECURSIVE InsertSorted(_, _)
InsertSorted(p, s) ==
    IF s = <<>> THEN <<p>>
    ELSE IF PathLess(p, Head(s)) THEN <<p>> \o s
    ELSE <<Head(s)>> \o InsertSorted(p, Tail(s))

RECURSIVE SortAcc(_, _)
SortAcc(s, acc) ==
    IF s = <<>> THEN acc ELSE SortAcc(Tail(s), InsertSorted(Head(s), acc))

sorted_unsorted(s) == s

\* sorted(image_files): stable sort by Path.__lt__.
sorted(s) == SortAcc(s, <<>>)

NoLoc == [active |-> FALSE, directory |-> Dot, recursive |-> TRUE,
          remaining |-> {}, image_files |-> <<>>]

\* Lines 119-122.
LocCall(directory, recursive) ==
    [active |-> TRUE, directory |-> directory, recursive |-> recursive,
     remaining |-> supported_formats, image_files |-> <<>>]


(***************************************************************************)
(* ImageTextExtractor.extract_text_from_image                              *)
(***************************************************************************)
NoExc == [type |-> "None", msg |-> <<>>]

FileNotFoundError(text, p) == [type |-> "FileNotFoundError", msg |-> <<text, p>>]

ValueError(text, p) == [type |-> "ValueError", msg |-> <<text, p>>]

\* Failures of the collaborators: PIL's open, convert and close, and the engine.
OpenError == [type |-> "UnidentifiedImageError", msg |-> <<"cannot identify image file">>]

ConvertError == [type |-> "OSError", msg |-> <<"image file is truncated">>]

EngineError == [type |-> "TesseractError", msg |-> <<"tesseract failed">>]

CloseError == [type |-> "OSError", msg |-> <<"close failed">>]

\* What pytesseract.image_to_string may return.
OcrOutputs == { <<" ", "\n">>, <<" ", "H", "I", "\n">>, <<"Y", "O">> }

ImageModes == {"RGB", "L"}

ImageSize == <<640, 480>>

NoSize == <<>>

NoMode == "absent"

None == <<>>

\* Lines 68-74: the result dict as first built.
new_result(p) ==
    [file_path |-> p, file_name |-> name(p), success |-> FALSE, text |-> <<>>,
     error |-> None, image_size |-> NoSize, image_mode |-> NoMode]

\* Lines 77-81 in the other order.
validate_extension_first(files, p) ==
    IF lower(suffix(p)) \notin supported_formats
    THEN ValueError("Unsupported image format: ", suffix(p))
    ELSE IF ~exists(files, p)
    THEN FileNotFoundError("Image file not found: ", p)
    ELSE NoExc

\* Lines 77-81: the exception the validation raises, NoExc when it passes.
validate(files, p) ==
    IF ~exists(files, p)
    THEN FileNotFoundError("Image file not found: ", p)
    ELSE IF lower(suffix(p)) \notin supported_formats
    THEN ValueError("Unsupported image format: ", suffix(p))
    ELSE NoExc

\* Lines 92-97: result.update(...).
update_result(r, extracted_text, mode) ==
    [r EXCEPT !.success = TRUE, !.text = strip(extracted_text),
              !.image_size = ImageSize, !.image_mode = mode]

\* Line 102: f"Error processing {image_path.name}: {str(e)}".
error_msg(p, e) == <<"Error processing ", name(p), ": ">> \o e.msg

\* Lines 101-104: the handler only sets result['error'].
except_handler(r, p, e) == [r EXCEPT !.error = error_msg(p, e)]

with_exit_leak(hs, h) == hs

\* Line 84: leaving the with block closes the handle Image.open returned.
with_exit(hs, h) == hs \ {h}

\* Line 90: the config keyword handed to the engine.
engine_config(cfg) == cfg

Idle == [pc |-> "idle", image_path |-> <<>>, result |-> new_result(<<>>),
         exc |-> NoExc, mode |-> NoMode, extracted_text |-> <<>>,
         opened |-> FALSE, engine_called |-> FALSE, config_passed |-> ""]

\* Lines 67-74: entry of extract_text_from_image.
extract_call(p) ==
    [Idle EXCEPT !.pc = "validate", !.image_path = p, !.result = new_result(p)]

\* Lines 76-81.
ExValidate ==
    /\ ex.pc = "validate"
    /\ LET e == validate(fs, ex.image_path)
       IN  ex' = IF e = NoExc THEN [ex EXCEPT !.pc = "open"]
                 ELSE [ex EXCEPT !.pc = "except", !.exc = e]
    /\ UNCHANGED <<fs, args, pc, loc, image_files, idx, results, handles,
                   out_files, exit_code, summary, raised>>

\* Line 84: Image.open succeeds and yields an image of some mode.
ExOpen ==
    /\ ex.pc = "open"
    /\ \E m \in ImageModes :
         ex' = [ex EXCEPT !.pc = IF m # "RGB" THEN "convert" ELSE "ocr",
                          !.mode = m, !.opened = TRUE]
    /\ handles' = handles \cup {ex.image_path}
    /\ UNCHANGED <<fs, args, pc, loc, image_files, idx, results,
                   out_files, exit_code, summary, raised>>

\* Line 84: Image.open raises (directory, unreadable or undecodable file).
ExOpenFail ==
    /\ ex.pc = "open"
    /\ ex' = [ex EXCEPT !.pc = "except", !.exc = OpenError, !.opened = TRUE]
    /\ UNCHANGED <<fs, args, pc, loc, image_files, idx, results, handles,
                   out_files, exit_code, summary, raised>>

\* Lines 86-87: img is rebound to the converted in-memory copy.
ExConvert ==
    /\ ex.pc = "convert"
    /\ ex' = [ex EXCEPT !.pc = "ocr", !.mode = "RGB"]
    /\ UNCHANGED <<fs, args, pc, loc, image_files, idx, results, handles,
                   out_files, exit_code, summary, raised>>

\* An exception inside the with block: __exit__ runs, then the exception
\* (or the one __exit__ itself raised) reaches the handler.
BodyRaises(base, e) ==
    /\ handles' = with_exit(handles, ex.image_path)
    /\ \E close_ok \in BOOLEAN :
         ex' = [base EXCEPT !.pc = "except",
                            !.exc = IF close_ok THEN e ELSE CloseError]

\* Line 87: convert raises.
ExConvertFail ==
    /\ ex.pc = "convert"
    /\ BodyRaises(ex, ConvertError)
    /\ UNCHANGED <<fs, args, pc, loc, image_files, idx, results,
                   out_files, exit_code, summary, raised>>

\* Line 90: the engine returns text.
ExOcr ==
    /\ ex.pc = "ocr"
    /\ \E t \in OcrOutputs :
         ex' = [ex EXCEPT !.pc = "update", !.extracted_text = t,
                          !.engine_called = TRUE,
                          !.config_passed = engine_config(args.tesseract_config)]
    /\ UNCHANGED <<fs, args, pc, loc, image_files, idx, results, handles,
                   out_files, exit_code, summary, raised>>

\* Line 90: the engine raises.
ExOcrFail ==
    /\ ex.pc = "ocr"
    /\ BodyRaises([ex EXCEPT !.engine_called = TRUE,
                              !.config_passed = engine_config(args.tesseract_config)],
                  EngineError)
    /\ UNCHANGED <<fs, args, pc, loc, image_files, idx, results,
                   out_files, exit_code, summary, raised>>

\* Lines 92-99: the success fields are written inside the with block.
ExUpdate ==
    /\ ex.pc = "update"
    /\ ex' = [ex EXCEPT !.pc = "exit",
                        !.result = update_result(ex.result, ex.extracted_text, ex.mode)]
    /\ UNCHANGED <<fs, args, pc, loc, image_files, idx, results, handles,
                   out_files, exit_code, summary, raised>>

\* Line 84/99: the with block ends normally and the handle is closed.
ExWithExit ==
    /\ ex.pc = "exit"
    /\ handles' = with_exit(handles, ex.image_path)
    /\ ex' = [ex EXCEPT !.pc = "return"]
    /\ UNCHANGED <<fs, args, pc, loc, image_files, idx, results,
                   out_files, exit_code, summary, raised>>

\* Line 84/99: the with block ends normally and closing the file raises.
ExWithExitFail ==
    /\ ex.pc = "exit"
    /\ handles' = with_exit(handles, ex.image_path)
    /\ ex' = [ex EXCEPT !.pc = "except", !.exc = CloseError]
    /\ UNCHANGED <<fs, args, pc, loc, image_files, idx, results,
                   out_files, exit_code, summary, raised>>

\* Lines 101-104.
ExExcept ==
    /\ ex.pc = "except"
    /\ ex' = [ex EXCEPT !.pc = "return",
                        !.result = except_handler(ex.result, ex.image_path, ex.exc)]
    /\ UNCHANGED <<fs, args, pc, loc, image_files, idx, results, handles,
                   out_files, exit_code, summary, raised>>

append_if_success(rs, r) == IF r.success THEN Append(rs, r) ELSE rs

\* Line 161: results.append(result).
append(rs, r) == Append(rs, r)

\* Line 106, and what the caller does with the value: lines 268, 146, 161.
ExReturn ==
    /\ ex.pc = "return"
    /\ pc \in {"single_wait", "batch_file_wait", "batch_loop_wait"}
    /\ ex' = [ex EXCEPT !.pc = "idle"]
    /\ IF pc = "batch_loop_wait"
       THEN /\ results' = append(results, ex.result)
            /\ idx' = idx + 1
            /\ pc' = "batch_loop"
       ELSE /\ results' = <<ex.result>>
            /\ idx' = idx
            /\ pc' = "main_results"
    /\ UNCHANGED <<fs, args, loc, image_files, handles,
                   out_files, exit_code, summary, raised>>

(***************************************************************************)
(* find_images_in_directory, step by step                                  *)
(***************************************************************************)
\* Lines 123-125: one iteration of the loop over the set supported_formats;
\* a set iterates in any order and each glob yields its matches in any order.
LocIter ==
    /\ loc.active
    /\ \E suf \in loc.remaining :
         \E lo \in Orders(glob(fs, loc.directory, loc.recursive, suf)) :
           \E up \in Orders(glob(fs, loc.directory, loc.recursive, upper(suf))) :
             loc' = [loc EXCEPT !.remaining = @ \ {suf},
                                !.image_files = @ \o lo \o up]
    /\ UNCHANGED <<fs, args, pc, image_files, idx, ex, results, handles,
                   out_files, exit_code, summary, raised>>

\* Line 127.
LocReturn ==
    /\ loc.active
    /\ loc.remaining = {}
    /\ image_files' = sorted(loc.image_files)
    /\ loc' = [loc EXCEPT !.active = FALSE, !.image_files = <<>>]
    /\ pc' = IF pc = "batch_find" THEN "batch_found" ELSE "lib_done"
    /\ UNCHANGED <<fs, args, idx, ex, results, handles,
                   out_files, exit_code, summary, raised>>

(***************************************************************************)
(* ImageTextExtractor.batch_extract_text                                   *)
(***************************************************************************)
source_never_missing(files, p) == FALSE

\* Line 141.
source_missing(files, p) == ~exists(files, p)

\* Lines 139-149.
BatchEnter ==
    /\ pc = "batch"
    /\ IF source_missing(fs, args.source_dir)
       THEN /\ raised' = FileNotFoundError("Source path not found: ", args.source_dir)
            /\ pc' = "main_except"
            /\ UNCHANGED <<ex, loc>>
       ELSE IF is_file(fs, args.source_dir)
       THEN /\ ex' = extract_call(args.source_dir)
            /\ pc' = "batch_file_wait"
            /\ UNCHANGED <<raised, loc>>
       ELSE /\ loc' = LocCall(args.source_dir, TRUE)
            /\ pc' = "batch_find"
            /\ UNCHANGED <<raised, ex>>
    /\ UNCHANGED <<fs, args, image_files, idx, results, handles,
                   out_files, exit_code, summary>>

\* Lines 151-157.
BatchFound ==
    /\ pc = "batch_found"
    /\ results' = <<>>
    /\ idx' = 1
    /\ pc' = IF image_files = <<>> THEN "main_results" ELSE "batch_loop"
    /\ UNCHANGED <<fs, args, loc, image_files, ex, handles,
                   out_files, exit_code, summary, raised>>

\* Lines 158-160: the next image is handed to the extractor.
BatchLoop ==
    /\ pc = "batch_loop"
    /\ idx <= Len(image_files)
    /\ ex' = extract_call(image_files[idx])
    /\ pc' = "batch_loop_wait"
    /\ UNCHANGED <<fs, args, loc, image_files, idx, results, handles,
                   out_files, exit_code, summary, raised>>

\* Line 163.
BatchReturn ==
    /\ pc = "batch_loop"
    /\ idx > Len(image_files)
    /\ pc' = "main_results"
    /\ UNCHANGED <<fs, args, loc, image_files, idx, ex, results, handles,
                   out_files, exit_code, summary, raised>>

(***************************************************************************)
(* save_results                                                            *)
(***************************************************************************)
Formats == {"console", "json", "text"}

TxtExt == <<".", "t", "x", "t">>

DefaultJsonFile == <<"extracted_text_results.json">>

SinkError == [type |-> "OSError", msg |-> <<"cannot write output">>]

\* Line 206: the results that get a text file.
writes_file(r) == r.success /\ r.text # <<>>

\* Line 208.
text_filename(r) == stem(r.file_name) \o TxtExt

\* open(path, 'w') followed by write: the file is created or replaced.
write_file(files, k, v) == {e \in files : e[1] # k} \cup {<<k, v>>}

\* Lines 205-212.
RECURSIVE write_text_files(_, _)
write_text_files(rs, files) ==
    IF rs = <<>> THEN files
    ELSE write_text_files(Tail(rs),
            IF writes_file(Head(rs))
            THEN write_file(files, text_filename(Head(rs)), Head(rs).text)
            ELSE files)

\* Lines 175-214, when nothing raises.
save_results(rs, output_format, files) ==
    CASE output_format = "console" -> files
      [] output_format = "json"    -> write_file(files, DefaultJsonFile, rs)
      [] output_format = "text"    -> write_text_files(rs, files)

(***************************************************************************)
(* main                                                                    *)
(***************************************************************************)
NoSummary == <<>>

RECURSIVE count_success(_)
count_success(rs) ==
    IF rs = <<>> THEN 0
    ELSE (IF Head(rs).success THEN 1 ELSE 0) + count_success(Tail(rs))

\* Lines 288-294.
make_summary(rs) ==
    <<Len(rs), count_success(rs), Len(rs) - count_success(rs)>>

\* Lines 265-271.
MainEnter ==
    /\ pc = "main"
    /\ IF args.single # <<>>
       THEN /\ ex' = extract_call(args.single)
            /\ pc' = "single_wait"
       ELSE /\ pc' = "batch"
            /\ ex' = ex
    /\ UNCHANGED <<fs, args, loc, image_files, idx, results, handles,
                   out_files, exit_code, summary, raised>>

\* Lines 273-275.
MainNoResults ==
    /\ pc = "main_results"
    /\ results = <<>>
    /\ exit_code' = 0
    /\ pc' = "done"
    /\ UNCHANGED <<fs, args, loc, image_files, idx, ex, results, handles,
                   out_files, summary, raised>>

\* Lines 277-285.
MainSave ==
    /\ pc = "main_results"
    /\ results # <<>>
    /\ out_files' = save_results(results, args.format, out_files)
    /\ pc' = "main_summary"
    /\ UNCHANGED <<fs, args, loc, image_files, idx, ex, results, handles,
                   exit_code, summary, raised>>

\* Lines 193 and 203-211: the sink raises at mkdir (k = 0) or when opening
\* the file for result k; the files of earlier results are already written.
MainSaveFail ==
    /\ pc = "main_results"
    /\ results # <<>>
    /\ \/ /\ args.format = "json"
          /\ out_files' = out_files
       \/ /\ args.format = "text"
          /\ \E k \in 0..Len(results) :
               /\ k > 0 => writes_file(results[k])
               /\ out_files' = write_text_files(SubSeq(results, 1, k - 1), out_files)
    /\ raised' = SinkError
    /\ pc' = "main_except"
    /\ UNCHANGED <<fs, args, loc, image_files, idx, ex, results, handles,
                   exit_code, summary>>

\* Lines 287-300, then the normal end of the process.
MainSummary ==
    /\ pc = "main_summary"
    /\ summary' = make_summary(results)
    /\ exit_code' = 0
    /\ pc' = "done"
    /\ UNCHANGED <<fs, args, loc, image_files, idx, ex, results, handles,
                   out_files, raised>>

\* Lines 302-304.
MainExcept ==
    /\ pc = "main_except"
    /\ exit_code' = 1
    /\ pc' = "done"
    /\ UNCHANGED <<fs, args, loc, image_files, idx, ex, results, handles,
                   out_files, summary, raised>>

(***************************************************************************)
(* Specifications                                                          *)
(***************************************************************************)
Trees == {S \in SUBSET Universe : Cardinality(S) <= MaxFiles}

Configs == {DefaultConfig, "--oem 3 --psm 3"}

SourceDirs == {Dot, D_zz, F_a_jpg}

LocatorRoots == {Dot, D_a, D_zz}

\* --single PATH, or --batch (single empty) with --source-dir.
CommandLines ==
    {a \in [single : Universe \cup {<<>>}, source_dir : SourceDirs,
            format : Formats, tesseract_config : Configs] :
        a.single # <<>> => a.source_dir = Dot}

InitRest ==
    /\ image_files = <<>>
    /\ idx = 1
    /\ ex = Idle
    /\ results = <<>>
    /\ handles = {}
    /\ out_files = {}
    /\ exit_code = -1
    /\ summary = NoSummary
    /\ raised = NoExc

\* The command: the state at line 265.
Init ==
    /\ fs \in Trees
    /\ args \in CommandLines
    /\ pc = "main"
    /\ loc = NoLoc
    /\ InitRest

Next ==
    \/ MainEnter
    \/ BatchEnter
    \/ LocIter
    \/ LocReturn
    \/ BatchFound
    \/ BatchLoop
    \/ BatchReturn
    \/ ExValidate
    \/ ExOpen
    \/ ExOpenFail
    \/ ExConvert
    \/ ExConvertFail
    \/ ExOcr
    \/ ExOcrFail
    \/ ExUpdate
    \/ ExWithExit
    \/ ExWithExitFail
    \/ ExExcept
    \/ ExReturn
    \/ MainNoResults
    \/ MainSave
    \/ MainSaveFail
    \/ MainSummary
    \/ MainExcept

Spec == Init /\ [][Next]_vars

\* The Locator called as a library function, as example_usage.py does.
InitLocator ==
    /\ fs \in Trees
    /\ args = [single |-> <<>>, source_dir |-> Dot, format |-> "console",
               tesseract_config |-> DefaultConfig]
    /\ pc = "lib_find"
    /\ \E d \in LocatorRoots, rec \in BOOLEAN : loc = LocCall(d, rec)
    /\ InitRest

NextLocator ==
    \/ LocIter
    \/ LocReturn

SpecLocator == InitLocator /\ [][NextLocator]_vars

(***************************************************************************)
(* Properties                                                              *)
(***************************************************************************)
Range(q) == {q[i] : i \in 1..Len(q)}

\* The extractor has been entered and has got past its validation.
ExValidated == ex.pc \notin {"idle", "validate"}

\* The record satisfies the ExtractionResult invariant of the data model.
ResultInv(r) ==
    /\ (r.error # None) <=> ~r.success
    /\ (r.error # None) => r.text = <<>>
    /\ (r.image_size # NoSize) <=> r.success
    /\ (r.image_mode # NoMode) <=> r.success

\* C1: extract_text_from_image never propagates an exception; whenever a step
\* failed, the record it returns has success = false and an error message
\* made of the file name and the original cause.
C1_FailureGivesFailedResult ==
    /\ ex.pc # "idle" => raised = NoExc
    /\ (ex.pc = "return" /\ ex.exc # NoExc) =>
          /\ ~ex.result.success
          /\ ex.result.error # None
          /\ ex.result.error[2] = name(ex.image_path)
          /\ SubSeq(ex.result.error, 4, Len(ex.result.error)) = ex.exc.msg

\* C2: every record extract_text_from_image returns satisfies the
\* ExtractionResult invariant, whichever step failed.
C2_ReturnedResultInvariant ==
    /\ ex.pc = "return" => ResultInv(ex.result)
    /\ \A i \in 1..Len(results) : ResultInv(results[i])

\* The run is a batch over a directory (or over a source that does not exist).
BatchDirRun == args.single = <<>> /\ ~is_file(fs, args.source_dir)

\* C3: a batch over a directory whose Locator list has N images returns N
\* results, the i-th for the i-th image, whichever extractions fail; during
\* the loop the results are that prefix of the list already processed.
C3_BatchResultsFollowLocator ==
    BatchDirRun =>
       /\ \A i \in 1..Len(results) :
             i <= Len(image_files) /\ results[i].file_path = image_files[i]
       /\ pc \in {"batch_loop", "batch_loop_wait"} => Len(results) = idx - 1
       /\ pc \in {"main_results", "main_summary", "main_except", "done"} =>
             Len(results) = Len(image_files)

C3_Witness ==
    /\ BatchDirRun
    /\ pc = "main_results"
    /\ Len(image_files) = 2
    /\ Len(results) = 2
    /\ ~results[1].success
    /\ results[2].success

\* The files the call of the Locator searches through.
SearchScope ==
    {f \in Under(fs, loc.directory) :
        loc.recursive \/ Len(parts(f)) = Depth(loc.directory) + 1}

\* C4: the Locator returns a file of the searched directory exactly when its
\* extension, ignoring letter case, is one of the supported extensions.
C4_CaseInsensitiveMatch ==
    pc = "lib_done" =>
       \A f \in SearchScope :
          f \in Range(image_files) <=> lower(suffix(f)) \in supported_formats

\* C5 as claimed: the Locator never returns a list for a root that does not
\* exist (it fails with PathNotFound).
C5_MissingRootFails ==
    pc = "lib_done" => exists(fs, loc.directory)

\* C5 as amended: for a root that does not exist the Locator raises nothing
\* and returns the empty list.
C5_MissingRootGivesEmptyList ==
    (pc = "lib_done" /\ ~exists(fs, loc.directory)) =>
       /\ image_files = <<>>
       /\ raised = NoExc

C5_Witness ==
    /\ pc = "lib_done"
    /\ ~exists(fs, loc.directory)
    /\ loc.directory = D_zz
    /\ F_a_jpg \in fs
    /\ image_files = <<>>

\* The text sink has run to its end.
TextSinkDone ==
    /\ pc \in {"main_summary", "done"}
    /\ args.format = "text"
    /\ results # <<>>
    /\ raised = NoExc

\* C6: in text mode the sink leaves one file per successful result with
\* non-empty text, named <stem>.txt and holding that result's text, and no
\* other file.
C6_OneFilePerResult ==
    TextSinkDone =>
       /\ Cardinality(out_files) =
             Cardinality({i \in 1..Len(results) : writes_file(results[i])})
       /\ \A i \in 1..Len(results) :
             writes_file(results[i]) =>
                <<text_filename(results[i]), results[i].text>> \in out_files

\* An error reaches main's handler: the batch source does not exist, or the
\* sink could not write.
TopLevelError ==
    \/ args.single = <<>> /\ ~exists(fs, args.source_dir)
    \/ raised = SinkError

\* C7: the process ends with exit code 1 exactly when a top-level error
\* occurred and with 0 otherwise, however many images failed; --single with a
\* missing path ends with one failed result, the summary 1/0/1 and exit code 0.
C7_ExitCode ==
    /\ pc # "done" => exit_code = -1
    /\ pc = "done" =>
          /\ TopLevelError => exit_code = 1
          /\ ~TopLevelError => exit_code = 0
          /\ (args.single # <<>> /\ ~exists(fs, args.single) /\ raised = NoExc) =>
                /\ Len(results) = 1
                /\ ~results[1].success
                /\ summary = <<1, 0, 1>>
                /\ exit_code = 0

C7_Witness ==
    /\ pc = "done"
    /\ args.single = F_a_jpg
    /\ ~exists(fs, args.single)
    /\ Len(results) = 1
    /\ ~results[1].success
    /\ summary = <<1, 0, 1>>
    /\ exit_code = 0

\* The files the Locator's globs match.
Matching ==
    UNION {glob(fs, loc.directory, loc.recursive, suf)
              \cup glob(fs, loc.directory, loc.recursive, upper(suf)) :
           suf \in supported_formats}

C9_NoHandleLeftOpen ==
    /\ handles \subseteq {ex.image_path}
    /\ ex.pc \notin {"convert", "ocr", "update", "exit"} => handles = {}

C9_Witness ==
    /\ ex.pc = "return"
    /\ ex.exc = EngineError
    /\ Len(results) = 1
    /\ results[1].success
    /\ handles = {}

\* C10: existence is validated before the extension; a missing path gives
\* FileNotFound even with an unsupported extension, an existing path with an
\* unsupported extension gives UnsupportedFormat, in both cases without
\* opening the image or calling the engine; the engine gets the configured
\* string unchanged.
C10_ValidationOrder ==
    /\ (ExValidated /\ ~exists(fs, ex.image_path)) =>
          /\ ex.exc = FileNotFoundError("Image file not found: ", ex.image_path)
          /\ ~ex.opened /\ ~ex.engine_called /\ handles = {}
          /\ ex.pc = "return" =>
                ~ex.result.success /\ ex.result.error = error_msg(ex.image_path, ex.exc)
    /\ (/\ ExValidated
        /\ exists(fs, ex.image_path)
        /\ lower(suffix(ex.image_path)) \notin supported_formats) =>
          /\ ex.exc = ValueError("Unsupported image format: ", suffix(ex.image_path))
          /\ ~ex.opened /\ ~ex.engine_called /\ handles = {}
          /\ ex.pc = "return" =>
                ~ex.result.success /\ ex.result.error = error_msg(ex.image_path, ex.exc)
    /\ ex.engine_called => ex.config_passed = args.tesseract_config
    /\ ex.engine_called => ex.opened

C10_Witness ==
    /\ ex.pc = "return"
    /\ ex.image_path = F_c_txt
    /\ ~exists(fs, F_c_txt)
    /\ ex.result.error = error_msg(F_c_txt, FileNotFoundError("Image file not found: ", F_c_txt))
====
